---- MODULE Spec2Model ----
(***************************************************************************)
(* getgridoperators: text normalisation and de-duplication helpers         *)
(* (src/utils/text.py), the Wikidata candidate fetcher                     *)
(* (src/sources/wikidata.py), the keyword filter (src/pipeline/filter.py)  *)
(* and the LLM seed generator (scripts/run_ggc_llm_seeds.py).              *)
(*                                                                         *)
(* Text is a sequence of characters.  An ASCII character is the one-       *)
(* character string itself; a non-ASCII code point is named:               *)
(*   "e_acute"  U+00E9   "E_ACUTE"  U+00C9   "acute"  U+0301 (combining)   *)
(*   "i_acute"  U+00ED                                                     *)
(*   "H_script" U+210B (NFKD gives "H", str.lower leaves it alone)         *)
(***************************************************************************)
EXTENDS Integers, Sequences, FiniteSets, TLC

VARIABLES
    nin, nout, npc,         \* normalize_name: argument, result, position
    rows_in, key_fields,    \* dedupe_rows: arguments
    seen, out, di, dpc,     \* dedupe_rows: locals, rows consumed, position
    category,               \* fetch_candidates_for_country: argument
    attempt, last_err,      \* _sparql: loop variable, last exception caught
    requests, errlog, waits,\* _sparql: requests.get calls made, their errors, time.sleep calls
    data, pauses,           \* run: the parsed body, time.sleep(sleep_s) calls
    wd_rows, filtered,      \* fetch_candidates_for_country: rows, filtered
    raised, fpc,            \* the exception that left the call, position
    fr_rows, fr_out, frpc,  \* filter_relevant: argument, result, position
    presp, pitems, perr, ppc, \* _safe_parse_items: argument, result, exception, position
    verify, dedupe_against_manual,  \* main: args.verify, args.dedupe_against_manual
    countries, manual_keys, \* main: the loaded country list and manual seed keys
    rows, seen_keys,        \* main: the accumulated rows and their keys
    ci, ki,                 \* main: position of the country and category loops
    items, verified,        \* main: the unit's items, the verified list being built
    handled,                \* the service response handled last, and by which call
    run_error,              \* the exception that left main
    written,                \* the output file: None, or the header and records written
    rpc                     \* main: position

normVars == <<nin, nout, npc>>
dedupeVars == <<rows_in, key_fields, seen, out, di, dpc>>
fetchVars == <<category, attempt, last_err, requests, errlog, waits, data, pauses,
               wd_rows, filtered, raised, fpc>>
filterVars == <<fr_rows, fr_out, frpc>>
parseVars == <<presp, pitems, perr, ppc>>
runVars == <<verify, dedupe_against_manual, countries, manual_keys, rows, seen_keys,
             ci, ki, items, verified, handled, run_error, written, rpc>>
vars == <<normVars, dedupeVars, fetchVars, filterVars, parseVars, runVars>>

\* what each component leaves alone
normOthers == <<dedupeVars, fetchVars, filterVars, parseVars, runVars>>
dedupeOthers == <<normVars, fetchVars, filterVars, parseVars, runVars>>
fetchOthers == <<normVars, dedupeVars, filterVars, parseVars, runVars>>
filterOthers == <<normVars, dedupeVars, fetchVars, parseVars, runVars>>
parseOthers == <<normVars, dedupeVars, fetchVars, filterVars, runVars>>
runOthers == <<normVars, dedupeVars, fetchVars, filterVars, parseVars>>

-----------------------------------------------------------------------------
(* Bounds of the model *)

MaxLen == 5                 \* longest text given to normalize_name
MaxRows == 3                \* longest list given to dedupe_rows
MaxBindings == 2            \* most bindings in one SPARQL response
MaxFilterRows == 2          \* longest list given to filter_relevant
MaxItems == 2               \* most elements in the "items" array of a response

-----------------------------------------------------------------------------
(* A component that is not running *)

NormIdle ==
    /\ nin = <<>>
    /\ nout = <<>>
    /\ npc = "idle"

DedupeIdle ==
    /\ rows_in = <<>>
    /\ key_fields = <<>>
    /\ seen = {}
    /\ out = <<>>
    /\ di = 0
    /\ dpc = "idle"

FetchIdle ==
    /\ category = ""
    /\ attempt = 0
    /\ last_err = "None"
    /\ requests = 0
    /\ errlog = <<>>
    /\ waits = <<>>
    /\ data = [shape |-> "none"]
    /\ pauses = 0
    /\ wd_rows = <<>>
    /\ filtered = <<>>
    /\ raised = "None"
    /\ fpc = "idle"

FilterIdle ==
    /\ fr_rows = <<>>
    /\ fr_out = <<>>
    /\ frpc = "idle"

ParseIdle ==
    /\ presp = [shape |-> "none"]
    /\ pitems = <<>>
    /\ perr = "None"
    /\ ppc = "idle"

RunIdle ==
    /\ verify = FALSE
    /\ dedupe_against_manual = FALSE
    /\ countries = <<>>
    /\ manual_keys = {}
    /\ rows = <<>>
    /\ seen_keys = {}
    /\ ci = 0
    /\ ki = 0
    /\ items = <<>>
    /\ verified = <<>>
    /\ handled = [fn |-> "none"]
    /\ run_error = "None"
    /\ written = [t |-> "none"]
    /\ rpc = "idle"

-----------------------------------------------------------------------------
(* Text helpers *)

\* The characters of an ASCII string literal, as text
Chars(s) == [i \in 1..Len(s) |-> SubSeq(s, i, i)]

\* Python's f"{a} {b}"
Joined(a, b) == a \o <<" ">> \o b

\* All texts over alphabet A of length at most n
TextsUpTo(A, n) == UNION {[1..k -> A] : k \in 0..n}

\* Unicode White_Space of the model's alphabet: str.strip() and regex \s
Whitespace == {" ", "\t"}

UpperAZ == "ABCDEFGHIJKLMNOPQRSTUVWXYZ"
LowerAZ == "abcdefghijklmnopqrstuvwxyz"
Digits == "0123456789"

\* \w of a str pattern: letters, digits, underscore (of the alphabet)
WordChars ==
    {SubSeq(UpperAZ, i, i) : i \in 1..Len(UpperAZ)}
        \cup {SubSeq(LowerAZ, i, i) : i \in 1..Len(LowerAZ)}
        \cup {SubSeq(Digits, i, i) : i \in 1..Len(Digits)}
        \cup {"_", "e_acute", "E_ACUTE", "i_acute", "H_script"}

\* unicodedata.combining(ch) # 0
Combining == {"acute"}

RECURSIVE LStrip(_)
LStrip(s) == IF s # <<>> /\ Head(s) \in Whitespace THEN LStrip(Tail(s)) ELSE s

RECURSIVE RStrip(_)
RStrip(s) ==
    IF s # <<>> /\ s[Len(s)] \in Whitespace THEN RStrip(SubSeq(s, 1, Len(s) - 1)) ELSE s

\* str.strip()
Strip(s) == RStrip(LStrip(s))

\* str.lower(), per character
LowerMap ==
    [c \in {SubSeq(UpperAZ, i, i) : i \in 1..Len(UpperAZ)} \cup {"E_ACUTE"} |->
        IF c = "E_ACUTE" THEN "e_acute"
        ELSE LET i == CHOOSE i \in 1..Len(UpperAZ) : SubSeq(UpperAZ, i, i) = c
             IN  SubSeq(LowerAZ, i, i)]

LowerChar(c) == IF c \in DOMAIN LowerMap THEN LowerMap[c] ELSE c

Lower(s) == [i \in 1..Len(s) |-> LowerChar(s[i])]

\* unicodedata.normalize("NFKD", ch), per character
NFKDChar(c) ==
    CASE c = "e_acute" -> <<"e", "acute">>
      [] c = "i_acute" -> <<"i", "acute">>
      [] c = "E_ACUTE" -> <<"E", "acute">>
      [] c = "H_script" -> <<"H">>
      [] OTHER -> <<c>>

RECURSIVE NFKD(_)
NFKD(s) == IF s = <<>> THEN <<>> ELSE NFKDChar(Head(s)) \o NFKD(Tail(s))

\* "".join(ch for ch in s if not unicodedata.combining(ch))
StripCombining(s) == SelectSeq(s, LAMBDA c : c \notin Combining)

\* re.sub(r"\s+", " ", s)
RECURSIVE CollapseWhitespace(_)
CollapseWhitespace(s) ==
    IF s = <<>> THEN <<>>
    ELSE IF Head(s) \in Whitespace
         THEN <<" ">> \o CollapseWhitespace(LStrip(s))
         ELSE <<Head(s)>> \o CollapseWhitespace(Tail(s))

\* re.sub(r"[^\w\s&.-]", "", s)
RemovePunctuation(s) ==
    SelectSeq(s, LAMBDA c : c \in WordChars \cup Whitespace \cup {"&", ".", "-"})

normalize_name(s) ==
    Strip(RemovePunctuation(CollapseWhitespace(StripCombining(NFKD(Lower(Strip(s)))))))

\* The Text Normalizer the fetcher and the generator import from src.utils.text
\* under the name normalize_for_match: trim, lower-case, accent-fold, collapse
\* whitespace, remove punctuation, trim
normalize_for_match(s) == normalize_name(s)

\* k in text (substring)
Contains(text, k) ==
    \E i \in 0..(Len(text) - Len(k)) : SubSeq(text, i + 1, i + Len(k)) = k

-----------------------------------------------------------------------------
(* normalize_name applied to every text of the alphabet, then to its own
   result *)

NormAlphabet == {"a", "A", " ", "\t", "!", "-", "e_acute", "H_script"}

NormInit ==
    /\ nin \in TextsUpTo(NormAlphabet, MaxLen)
    /\ nout = <<>>
    /\ npc = "start"
    /\ DedupeIdle /\ FetchIdle /\ FilterIdle /\ ParseIdle /\ RunIdle

Normalize ==
    /\ npc = "start"
    /\ nout' = normalize_name(nin)
    /\ npc' = "done"
    /\ UNCHANGED <<nin, normOthers>>

Renormalize ==
    /\ npc = "done"
    /\ nin' = nout
    /\ nout' = normalize_name(nout)
    /\ npc' = "again"
    /\ UNCHANGED normOthers

NormNext == Normalize \/ Renormalize

SpecNorm == NormInit /\ [][NormNext]_vars

\* C1: normalize_name(normalize_name(x)) = normalize_name(x) for every text x.
NormalizeIdempotent == npc = "again" => nout = nin

-----------------------------------------------------------------------------
(* dedupe_rows(rows, key_fields) *)

(* Python values: a tag and, for a str, its text *)
None == [t |-> "none"]                  \* None / JSON null
Absent == [t |-> "absent"]              \* the dict has no such key
Str(s) == [t |-> "str", v |-> s]        \* a str

\* r.get(f)
Get(r, f) == IF f \in DOMAIN r /\ r[f] # Absent THEN r[f] ELSE None

\* bool(x): None, "", 0, [] and {} are falsy
Truthy(x) ==
    CASE x.t = "none" -> FALSE
      [] x.t = "str" -> x.v # <<>>
      [] x.t = "num" -> x.v # 0
      [] x.t = "list" -> x.v # <<>>
      [] OTHER -> TRUE

\* x or ""
OrEmpty(x) == IF Truthy(x) THEN x ELSE Str(<<>>)

\* the key without .strip()
DedupeKeyUntrimmed(r, fields) == [i \in 1..Len(fields) |-> OrEmpty(Get(r, fields[i])).v]

\* tuple((r.get(f) or "").strip() for f in key_fields)
DedupeKey(r, fields) == [i \in 1..Len(fields) |-> Strip(OrEmpty(Get(r, fields[i])).v)]

DedupeNames == {Absent, None, Str(<<>>), Str(<<"a">>), Str(<<" ", "a", " ">>)}
DedupeCountries == {Str(<<"K">>), Str(<<"P">>)}
DedupeRowPool == [name : DedupeNames, country_label : DedupeCountries]
DedupeKeyFields == {<<"name">>, <<"country_label">>, <<"name", "country_label">>}

DedupeInit ==
    /\ rows_in \in UNION {[1..k -> DedupeRowPool] : k \in 0..MaxRows}
    /\ key_fields \in DedupeKeyFields
    /\ seen = {}
    /\ out = <<>>
    /\ di = 0
    /\ dpc = "loop"
    /\ NormIdle /\ FetchIdle /\ FilterIdle /\ ParseIdle /\ RunIdle

\* one iteration of "for r in rows" on a row whose key was seen: continue
DedupeSkip ==
    /\ dpc = "loop"
    /\ di < Len(rows_in)
    /\ DedupeKey(rows_in[di + 1], key_fields) \in seen
    /\ di' = di + 1
    /\ UNCHANGED <<rows_in, key_fields, seen, out, dpc, dedupeOthers>>

\* one iteration on a row with a new key: seen.add(key); out.append(r)
DedupeKeep ==
    /\ dpc = "loop"
    /\ di < Len(rows_in)
    /\ DedupeKey(rows_in[di + 1], key_fields) \notin seen
    /\ seen' = seen \cup {DedupeKey(rows_in[di + 1], key_fields)}
    /\ out' = Append(out, rows_in[di + 1])
    /\ di' = di + 1
    /\ UNCHANGED <<rows_in, key_fields, dpc, dedupeOthers>>

\* return out
DedupeReturn ==
    /\ dpc = "loop"
    /\ di = Len(rows_in)
    /\ dpc' = "returned"
    /\ UNCHANGED <<rows_in, key_fields, seen, out, di, dedupeOthers>>

DedupeNext == DedupeSkip \/ DedupeKeep \/ DedupeReturn

SpecDedupe == DedupeInit /\ [][DedupeNext]_vars

\* The key of a record as the claim words it: the key fields' trimmed values,
\* a missing or null field counting as empty.
TrimmedKeyOf(r) ==
    [i \in 1..Len(key_fields) |->
        IF key_fields[i] \notin DOMAIN r \/ r[key_fields[i]] \in {Absent, None}
        THEN <<>> ELSE Strip(r[key_fields[i]].v)]

IsFirstOccurrence(i) ==
    \A j \in 1..(i - 1) : TrimmedKeyOf(rows_in[j]) # TrimmedKeyOf(rows_in[i])

RECURSIVE FirstOccurrencesFrom(_)
FirstOccurrencesFrom(i) ==
    IF i > Len(rows_in) THEN <<>>
    ELSE (IF IsFirstOccurrence(i) THEN <<rows_in[i]>> ELSE <<>>)
             \o FirstOccurrencesFrom(i + 1)

\* C2: dedupe_rows returns exactly the subsequence of first occurrences of each
\* key, in input order; no two output records share a key and every input key
\* is the key of an output record.
DedupeFirstOccurrences ==
    dpc = "returned" =>
        /\ out = FirstOccurrencesFrom(1)
        /\ \A i, j \in 1..Len(out) : i # j => TrimmedKeyOf(out[i]) # TrimmedKeyOf(out[j])
        /\ \A i \in 1..Len(rows_in) :
               \E j \in 1..Len(out) : TrimmedKeyOf(out[j]) = TrimmedKeyOf(rows_in[i])

\* a run over a list holding a repeated key (differing only in padding or in
\* missing/null) has returned
DedupeWitness ==
    /\ dpc = "returned"
    /\ Len(out) >= 2
    /\ Len(out) < Len(rows_in)
    /\ \E i \in 1..Len(rows_in) : rows_in[i].name = Str(<<" ", "a", " ">>) /\ ~IsFirstOccurrence(i)

-----------------------------------------------------------------------------
(* _sparql and fetch_candidates_for_country (src/sources/wikidata.py) *)

retries == 3                \* _sparql(..., retries: int = 3, ...)
backoff_s == 2              \* _sparql(..., backoff_s: float = 2.0)

\* the categories the fetcher has types and keywords for
FetchCategories == {"TSO", "Regulator", "Ministry"}

\* kw, per category
FetchKeywords(cat) ==
    CASE cat = "TSO" ->
             {Chars("transmission"), Chars("grid"), Chars("system operator"),
              Chars("operator"), Chars("electricidad"), Chars("energia")}
      [] cat = "Regulator" ->
             {Chars("energy"), Chars("electricity"), Chars("power"), Chars("grid"),
              Chars("renewable"), Chars("renewables"), Chars("electricidad"),
              Chars("energia")}
      [] cat = "Ministry" ->
             {Chars("energy"), Chars("electricity"), Chars("power")}

\* a loop that runs once more: range(1, retries + 2)
AttemptsLeftOneMore(a) == a <= retries + 1

\* for attempt in range(1, retries + 1)
AttemptsLeft(a) == a <= retries

\* wait = backoff_s * attempt
Backoff(a) == backoff_s * a

\* what requests.get / raise_for_status (transport, HTTP status) and r.json (a
\* body that is not JSON) can raise
RequestErrors == {"ConnectionError", "JSONDecodeError"}

\* s.rsplit("/", 1)[-1]
RECURSIVE RSplitLast(_)
RSplitLast(s) ==
    IF \A i \in 1..Len(s) : s[i] # "/" THEN s
    ELSE RSplitLast(Tail(s))

\* _v(val): the binding's "value", None when the variable is unbound
V(b, f) == IF Truthy(Get(b, f)) THEN Get(b, f) ELSE None

\* cut at the last "/" when there is a value
QidOf(x) == IF x = None THEN None ELSE Str(RSplitLast(x.v))

Binding(item, label, desc) ==
    [t |-> "dict", item |-> item, itemLabel |-> label,
     country |-> Str(Chars("e/Q114")), countryLabel |-> Str(Chars("Kenya")),
     type |-> Str(Chars("e/Q112046")), typeLabel |-> Absent,
     website |-> Absent, desc |-> desc]

\* elements of a bindings list: bindings with and without label and
\* description, a binding without ?item, a non-object
FetchBindings ==
    {Binding(Str(Chars("e/Q1")), Str(Chars("Grid Operator Ltd")), Absent),
     Binding(Str(Chars("e/Q2")), Str(Chars("Energy Board")), Absent),
     Binding(Str(Chars("e/Q3")), Str(Chars("Regulatory Authority")), Absent),
     Binding(Str(Chars("e/Q4")), Str(Chars("Ministry of Mines")), Absent),
     Binding(Str(Chars("e/Q5")), Str(Chars("Wildlife NGO")), Absent),
     Binding(Str(Chars("e/Q5")), Str(Chars("Wildlife NGO")), Str(Chars("power department"))),
     Binding(Str(Chars("e/Q6")), Absent, Str(Chars("transmission operator"))),
     Binding(Str(Chars("e/Q7")), Str(<<"E", "n", "e", "r", "g", "i_acute", "a">>), Absent),
     Binding(Absent, Str(Chars("Grid Operator Ltd")), Absent),
     Str(Chars("x"))}

\* what r.json() can return: the results/bindings structure, or a JSON value
\* without it
FetchBodies ==
    {[shape |-> "bindings", v |-> bs] :
        bs \in UNION {[1..k -> FetchBindings] : k \in 0..MaxBindings}}
        \cup {[shape |-> "no_results"], [shape |-> "no_bindings"], [shape |-> "not_object"]}

\* the exception data["results"]["bindings"] and the loop over it raise, or "None"
RunError(body) ==
    CASE body.shape = "no_results" -> "KeyError"
      [] body.shape = "no_bindings" -> "KeyError"
      [] body.shape = "not_object" -> "TypeError"
      [] OTHER -> IF \E i \in 1..Len(body.v) : body.v[i].t # "dict"
                  THEN "AttributeError" ELSE "None"

\* the dict appended to out for binding b
RowOf(cat, b) ==
    [source |-> Str(Chars("wikidata")),
     category |-> Str(Chars(cat)),
     operator_qid |-> QidOf(V(b, "item")),
     operator_label |-> V(b, "itemLabel"),
     operator_type_qid |-> QidOf(V(b, "type")),
     operator_type_label |-> V(b, "typeLabel"),
     country_qid |-> QidOf(V(b, "country")),
     country_label |-> V(b, "countryLabel"),
     website |-> V(b, "website"),
     description_en |-> V(b, "desc")]

\* for b in bindings: skip a binding without item, else out.append({...})
RECURSIVE RunRows(_, _)
RunRows(cat, bs) ==
    IF bs = <<>> THEN <<>>
    ELSE (IF V(Head(bs), "item") = None THEN <<>> ELSE <<RowOf(cat, Head(bs))>>)
             \o RunRows(cat, Tail(bs))

\* (r.get(f) or "").lower()
LowerField(r, f) == Lower(OrEmpty(Get(r, f)).v)

\* normalize_for_match(f"{lbl} {desc}")
FetchText(r) ==
    normalize_for_match(
        Joined(LowerField(r, "operator_label"), LowerField(r, "description_en")))

\* kw_norm = [normalize_for_match(k) for k in kw]
kw_norm == [cat \in FetchCategories |-> {normalize_for_match(k) : k \in FetchKeywords(cat)}]

\* any(k in text for k in kw_norm)
FetchKeeps(cat, r) ==
    LET text == FetchText(r) IN \E k \in kw_norm[cat] : Contains(text, k)

FetchInit ==
    /\ category \in FetchCategories \cup {"RenewablesAgency", "NuclearAgency", "Utility"}
    /\ attempt = 0
    /\ last_err = "None"
    /\ requests = 0
    /\ errlog = <<>>
    /\ waits = <<>>
    /\ data = [shape |-> "none"]
    /\ pauses = 0
    /\ wd_rows = <<>>
    /\ filtered = <<>>
    /\ raised = "None"
    /\ fpc = "start"
    /\ NormIdle /\ DedupeIdle /\ FilterIdle /\ ParseIdle /\ RunIdle

\* the category has types and keywords: run(types) calls _sparql
FetchStart ==
    /\ fpc = "start"
    /\ category \in FetchCategories
    /\ attempt' = 1
    /\ fpc' = "sparql"
    /\ UNCHANGED <<category, last_err, requests, errlog, waits, data, pauses,
                   wd_rows, filtered, raised, fetchOthers>>

\* else: raise ValueError(f"Unknown category: {category}")
FetchUnknownCategory ==
    /\ fpc = "start"
    /\ category \notin FetchCategories
    /\ raised' = "ValueError"
    /\ fpc' = "raised"
    /\ UNCHANGED <<category, attempt, last_err, requests, errlog, waits, data, pauses,
                   wd_rows, filtered, fetchOthers>>

\* an attempt that succeeds: return r.json()
SparqlOk ==
    /\ fpc = "sparql"
    /\ AttemptsLeft(attempt)
    /\ requests' = requests + 1
    /\ \E body \in FetchBodies : data' = body
    /\ fpc' = "run"
    /\ UNCHANGED <<category, attempt, last_err, errlog, waits, pauses,
                   wd_rows, filtered, raised, fetchOthers>>

\* an attempt that fails: except Exception as e: last_err = e; sleep(backoff_s * attempt)
SparqlFail ==
    /\ fpc = "sparql"
    /\ AttemptsLeft(attempt)
    /\ requests' = requests + 1
    /\ \E e \in RequestErrors :
          /\ last_err' = e
          /\ errlog' = Append(errlog, e)
    /\ waits' = Append(waits, Backoff(attempt))
    /\ attempt' = attempt + 1
    /\ UNCHANGED <<category, data, pauses, wd_rows, filtered, raised, fpc, fetchOthers>>

\* the loop is over: raise last_err (through run and fetch_candidates_for_country)
SparqlRaise ==
    /\ fpc = "sparql"
    /\ ~AttemptsLeft(attempt)
    /\ raised' = IF last_err = "None" THEN "TypeError" ELSE last_err
    /\ fpc' = "raised"
    /\ UNCHANGED <<category, attempt, last_err, requests, errlog, waits, data, pauses,
                   wd_rows, filtered, fetchOthers>>

\* run: time.sleep(sleep_s); build out from data["results"]["bindings"]
RunReturn ==
    /\ fpc = "run"
    /\ RunError(data) = "None"
    /\ pauses' = pauses + 1
    /\ wd_rows' = RunRows(category, data.v)
    /\ fpc' = "filter"
    /\ UNCHANGED <<category, attempt, last_err, requests, errlog, waits, data,
                   filtered, raised, fetchOthers>>

\* run: time.sleep(sleep_s); the body has another shape and the lookup raises
RunRaise ==
    /\ fpc = "run"
    /\ RunError(data) # "None"
    /\ pauses' = pauses + 1
    /\ raised' = RunError(data)
    /\ fpc' = "raised"
    /\ UNCHANGED <<category, attempt, last_err, requests, errlog, waits, data,
                   wd_rows, filtered, fetchOthers>>

\* for r in rows: keyword test; return filtered
FetchFilter ==
    /\ fpc = "filter"
    /\ filtered' = SelectSeq(wd_rows, LAMBDA r : FetchKeeps(category, r))
    /\ fpc' = "returned"
    /\ UNCHANGED <<category, attempt, last_err, requests, errlog, waits, data, pauses,
                   wd_rows, raised, fetchOthers>>

FetchNext ==
    \/ FetchStart \/ FetchUnknownCategory
    \/ SparqlOk \/ SparqlFail \/ SparqlRaise
    \/ RunReturn \/ RunRaise
    \/ FetchFilter

SpecFetch == FetchInit /\ [][FetchNext]_vars

\* C4: a graph query issues at most `retries` requests; a successful response is
\* returned at once (it is the last request made); the k-th failed attempt is
\* followed by a wait of k * backoff_s; when all attempts failed the error of
\* the last attempt leaves fetch_candidates_for_country and no list is returned.
SparqlRetryBound ==
    /\ requests <= retries
    /\ Len(waits) = Len(errlog)
    /\ \A k \in 1..Len(waits) : waits[k] = k * backoff_s
    /\ data.shape # "none" => requests = Len(errlog) + 1
    /\ data.shape = "none" => requests = Len(errlog)
    /\ (fpc = "raised" /\ category \in FetchCategories /\ data.shape = "none") =>
          /\ requests = retries
          /\ raised = errlog[retries]
          /\ wd_rows = <<>> /\ filtered = <<>>
    /\ (fpc \in {"filter", "returned"}) => data.shape = "bindings"

\* every attempt failed, with different errors, and the last one was raised
SparqlExhaustedWitness ==
    /\ fpc = "raised"
    /\ requests = retries
    /\ Len(errlog) = retries
    /\ errlog[1] # errlog[retries]
    /\ raised = errlog[retries]
    /\ waits[retries] = retries * backoff_s

\* the keyword sets of the Category Rule Set as the claim lists them
RuleSetKeywords(cat) ==
    CASE cat = "TSO" ->
             {Chars("transmission"), Chars("system operator"), Chars("grid operator"),
              Chars("operator")}
      [] cat = "Regulator" ->
             {Chars("regulator"), Chars("regulatory"), Chars("commission"),
              Chars("authority")}
      [] cat = "Ministry" -> {Chars("ministry"), Chars("department")}

\* the rule set's keyword test on a record's normalized label+description text
RuleSetKeeps(cat, r) ==
    LET text == normalize_name(
                    Joined(OrEmpty(Get(r, "operator_label")).v,
                           OrEmpty(Get(r, "description_en")).v))
    IN  \E k \in RuleSetKeywords(cat) : Contains(text, k)

\* the category key a Str value spells
CategoryName(c) ==
    CHOOSE n \in {"TSO", "Regulator", "Ministry", "RenewablesAgency", "NuclearAgency"} :
        Str(Chars(n)) = c

InSeq(x, sq) == \E i \in 1..Len(sq) : sq[i] = x

\* C9: the fetcher keeps a labelled record of category TSO, Regulator or
\* Ministry exactly when its label+description text contains a keyword of the
\* category's set in the Category Rule Set.
FetchFilterUsesRuleSet ==
    fpc = "returned" =>
        \A i \in 1..Len(wd_rows) :
            Truthy(wd_rows[i].operator_label) =>
                (InSeq(wd_rows[i], filtered) <=> RuleSetKeeps(category, wd_rows[i]))

\* C12 (fetch_candidates_for_country): a record without a label (missing or empty)
\* is never in the list the post-filter returns, whatever its description and its
\* category.
FetchDropsLabelLess ==
    fpc = "returned" =>
        \A i \in 1..Len(filtered) : Truthy(Get(filtered[i], "operator_label"))

\* the five categories of the Category Rule Set
RuleSetCategories == {"TSO", "Regulator", "Ministry", "RenewablesAgency", "NuclearAgency"}

\* the two categories for which the rule set defines no keyword filter
AgencyCategories == {"RenewablesAgency", "NuclearAgency"}

\* C13 (fetch_candidates_for_country): the category check fails with the
\* invalid-category error exactly when the category is not one of the five.  An
\* unknown category ends in that error before any request and returns no list; one
\* of the five never ends in it; RenewablesAgency and NuclearAgency return every
\* labelled candidate.
FetchInvalidCategoryIffUnknown ==
    /\ (category \notin RuleSetCategories /\ fpc # "start") =>
           (fpc = "raised" /\ raised = "ValueError" /\ requests = 0 /\ filtered = <<>>)
    /\ (fpc = "raised" /\ raised = "ValueError" /\ requests = 0) =>
           category \notin RuleSetCategories
    /\ (category \in AgencyCategories /\ fpc = "returned") =>
           \A i \in 1..Len(wd_rows) :
               Truthy(wd_rows[i].operator_label) => InSeq(wd_rows[i], filtered)

-----------------------------------------------------------------------------
(* filter_relevant (src/pipeline/filter.py) *)

\* the keyword list of each branch; any other category keeps every row
FilterKeywords(cat) ==
    CASE cat = Str(Chars("TSO")) ->
             {Chars("transmission"), Chars("system operator"), Chars("grid operator"),
              Lower(Chars("tsO"))}
      [] cat = Str(Chars("Regulator")) ->
             {Chars("regulator"), Chars("regulatory"), Chars("commission"),
              Chars("authority")}
      [] cat = Str(Chars("Ministry")) -> {Chars("ministry"), Chars("department")}

FilterBranches == {Str(Chars("TSO")), Str(Chars("Regulator")), Str(Chars("Ministry"))}

\* one iteration of the loop: is r appended to out
FilterKeeps(r) ==
    LET lbl == LowerField(r, "operator_label")
        desc == LowerField(r, "description_en")
        text == Joined(lbl, desc)
    IN  /\ lbl # <<>>
        /\ Get(r, "category") \in FilterBranches =>
               \E k \in FilterKeywords(Get(r, "category")) : Contains(text, k)

filter_relevant(rs) == SelectSeq(rs, FilterKeeps)

FilterLabels ==
    {Absent, Str(Chars("Grid Operator Ltd")), Str(Chars("Regulatory Authority")),
     Str(Chars("Watson Ltd"))}
FilterDescs == {Absent, Str(Chars("power department"))}
FilterCategories ==
    {Str(Chars("TSO")), Str(Chars("Regulator")), Str(Chars("Ministry")),
     Str(Chars("NuclearAgency")), Str(Chars("Utility"))}
FilterRowPool ==
    [operator_label : FilterLabels, description_en : FilterDescs, category : FilterCategories]

FilterInit ==
    /\ fr_rows \in UNION {[1..k -> FilterRowPool] : k \in 0..MaxFilterRows}
    /\ fr_out = <<>>
    /\ frpc = "start"
    /\ NormIdle /\ DedupeIdle /\ FetchIdle /\ ParseIdle /\ RunIdle

FilterRelevant ==
    /\ frpc = "start"
    /\ fr_out' = filter_relevant(fr_rows)
    /\ frpc' = "returned"
    /\ UNCHANGED <<fr_rows, filterOthers>>

FilterNext == FilterRelevant

SpecFilter == FilterInit /\ [][FilterNext]_vars

\* filter_relevant keeps a labelled TSO, Regulator or Ministry record exactly
\* when the rule set's keyword test passes (the second half of C9)
FilterRelevantUsesRuleSet ==
    frpc = "returned" =>
        \A i \in 1..Len(fr_rows) :
            (Truthy(Get(fr_rows[i], "operator_label"))
                /\ fr_rows[i].category \in FilterBranches) =>
                (InSeq(fr_rows[i], fr_out)
                    <=> RuleSetKeeps(CategoryName(fr_rows[i].category), fr_rows[i]))

\* filter_relevant returns a list (no error) only when every record's category is one
\* of the five, and then keeps every labelled RenewablesAgency or NuclearAgency record
\* (the filter_relevant half of C13; its else branch keeps a record of any other
\* category)
FilterRelevantRejectsUnknownCategory ==
    frpc = "returned" =>
        /\ \A i \in 1..Len(fr_rows) :
               \E n \in RuleSetCategories : fr_rows[i].category = Str(Chars(n))
        /\ \A i \in 1..Len(fr_rows) :
               (Truthy(fr_rows[i].operator_label)
                   /\ \E n \in AgencyCategories : fr_rows[i].category = Str(Chars(n))) =>
                   InSeq(fr_rows[i], fr_out)

\* filter_relevant never returns a record without a label (the half of C12 that
\* the code keeps: "if not lbl: continue")
FilterRelevantDropsLabelLess ==
    frpc = "returned" =>
        \A i \in 1..Len(fr_out) : Truthy(Get(fr_out[i], "operator_label"))

-----------------------------------------------------------------------------
(* _safe_parse_items (scripts/run_ggc_llm_seeds.py) *)

Num(n) == [t |-> "num", v |-> n]        \* a JSON number
List(xs) == [t |-> "list", v |-> xs]    \* a JSON array

ItemFields ==
    <<"name", "also_known_as", "official_website", "confidence", "evidence", "comment">>

Confidences == {Chars("HIGH"), Chars("MED"), Chars("LOW")}

\* a JSON object with the six fields of the schema
Item(name, aka, conf, evidence) ==
    [t |-> "dict", name |-> name, also_known_as |-> aka, official_website |-> Str(<<>>),
     confidence |-> conf, evidence |-> evidence, comment |-> Str(<<>>)]

\* (it.get(f) or "").strip() raises AttributeError on a truthy value without strip
FieldRaises(it, f) == Truthy(Get(it, f)) /\ Get(it, f).t # "str"

\* (it.get(f) or "").strip()
FieldText(it, f) == Strip(OrEmpty(Get(it, f)).v)

ItemRaises(it) == \E i \in 1..Len(ItemFields) : FieldRaises(it, ItemFields[i])

\* if confidence not in {"HIGH", "MED", "LOW"}: confidence = "LOW"
Coerce(c) == IF c \in Confidences THEN c ELSE Chars("LOW")

\* a parser without the name test
NameMissingNever(name) == FALSE

\* if not name: continue
NameMissing(name) == name = <<>>

\* the dict appended to out for a response item
ParsedItem(it) ==
    [name |-> FieldText(it, "name"),
     also_known_as |-> FieldText(it, "also_known_as"),
     official_website |-> FieldText(it, "official_website"),
     confidence |-> Coerce(FieldText(it, "confidence")),
     evidence |-> FieldText(it, "evidence"),
     comment |-> FieldText(it, "comment")]

\* for it in items: skip a non-object and an item without a name
RECURSIVE ParseItems(_)
ParseItems(xs) ==
    IF xs = <<>> THEN <<>>
    ELSE (IF Head(xs).t # "dict" \/ NameMissing(FieldText(Head(xs), "name"))
          THEN <<>> ELSE <<ParsedItem(Head(xs))>>)
             \o ParseItems(Tail(xs))

\* obj.get("items", [])
ItemsOf(resp) == IF resp.items = Absent THEN List(<<>>) ELSE resp.items

\* _safe_parse_items(resp_output_text): the list returned, or the exception raised
\*   shape "not_json":   json.loads raises JSONDecodeError
\*   shape "not_object": JSON whose top-level value is not an object
\*   shape "object":     a JSON object, items |-> its "items" member
SafeParse(resp) ==
    CASE resp.shape = "not_json" -> [err |-> "None", items |-> <<>>]
      [] resp.shape = "not_object" -> [err |-> "AttributeError", items |-> <<>>]
      [] OTHER ->
            IF ItemsOf(resp).t # "list" THEN [err |-> "None", items |-> <<>>]
            ELSE IF \E i \in 1..Len(ItemsOf(resp).v) :
                        ItemsOf(resp).v[i].t = "dict" /\ ItemRaises(ItemsOf(resp).v[i])
                 THEN [err |-> "AttributeError", items |-> <<>>]
                 ELSE [err |-> "None", items |-> ParseItems(ItemsOf(resp).v)]

Object(its) == [shape |-> "object", items |-> its]

\* elements of the "items" array of a generation response
GenElements ==
    {Item(Str(Chars("Ofgem")), Str(<<>>), Str(Chars("HIGH")), Str(<<>>)),
     Item(Str(Chars(" OFGEM ")), Str(Chars("GEMA")), Str(Chars(" MED ")), Str(<<>>)),
     Item(Str(Chars("Kenya Power")), Str(<<>>), Str(Chars("urgent")), Str(<<>>)),
     Item(Str(Chars("Kenya Power")), Str(<<>>), Absent, Str(<<>>)),
     Item(Str(Chars("  ")), Str(<<>>), Str(Chars("HIGH")), Str(Chars("x"))),
     Item(Absent, Str(<<>>), Str(Chars("HIGH")), Str(<<>>)),
     Item(Str(Chars("!!")), Str(<<>>), None, Str(<<>>)),
     Item(Str(Chars("Ofgem")), Str(<<>>), Num(5), Str(<<>>)),
     Item(None, Str(<<>>), Str(Chars("LOW")), Num(5)),
     Str(Chars("x"))}

\* the texts the service can answer a generation request with
GenResponses ==
    {Object(List(xs)) : xs \in UNION {[1..k -> GenElements] : k \in 0..MaxItems}}
        \cup {[shape |-> "not_json"], [shape |-> "not_object"],
              Object(Absent), Object(None), Object(Str(Chars("x")))}

ParseInit ==
    /\ presp \in GenResponses
    /\ pitems = <<>>
    /\ perr = "None"
    /\ ppc = "start"
    /\ NormIdle /\ DedupeIdle /\ FetchIdle /\ FilterIdle /\ RunIdle

\* return out
ParseReturn ==
    /\ ppc = "start"
    /\ SafeParse(presp).err = "None"
    /\ pitems' = SafeParse(presp).items
    /\ ppc' = "returned"
    /\ UNCHANGED <<presp, perr, parseOthers>>

\* an exception leaves _safe_parse_items
ParseRaise ==
    /\ ppc = "start"
    /\ SafeParse(presp).err # "None"
    /\ perr' = SafeParse(presp).err
    /\ ppc' = "raised"
    /\ UNCHANGED <<presp, pitems, parseOthers>>

ParseNext == ParseReturn \/ ParseRaise

SpecParse == ParseInit /\ [][ParseNext]_vars

\* the response items (objects of the "items" array) with a non-empty name
NamedElements(resp) ==
    IF resp.shape # "object" \/ resp.items = Absent \/ resp.items.t # "list" THEN <<>>
    ELSE SelectSeq(resp.items.v,
             LAMBDA x : /\ x.t = "dict"
                        /\ x.name.t = "str"
                        /\ Strip(x.name.v) # <<>>)

\* C8: every response item with a non-empty name is parsed (none is dropped
\* because of its confidence); the parsed confidence is the item's own value
\* when that is exactly HIGH, MED or LOW, and LOW when it is missing or
\* anything else.
ConfidenceCoercedNeverDropped ==
    ppc # "start" =>
        /\ Len(pitems) = Len(NamedElements(presp))
        /\ \A i \in 1..Len(pitems) :
              LET c == NamedElements(presp)[i].confidence
              IN  pitems[i].confidence =
                      IF c.t = "str" /\ c.v \in Confidences THEN c.v ELSE Chars("LOW")

-----------------------------------------------------------------------------
(* main (scripts/run_ggc_llm_seeds.py) *)

\* the keys of CATEGORIES, in the declared order
CATEGORIES == <<"TSO", "Regulator", "Ministry", "RenewablesAgency", "NuclearAgency">>

\* ggc_country_tiers.csv: its country_label cells (padded, blank and repeated
\* labels among them), or a file without the column
CountryFiles ==
    {[has_column |-> TRUE,
      cells |-> <<Str(Chars("Kenya")), Str(<<>>), Str(Chars(" Kenya ")), None,
                  Str(Chars("Peru")), Str(Chars("Kenya"))>>],
     [has_column |-> TRUE, cells |-> <<Str(Chars(" ")), Str(Chars("Peru "))>>],
     [has_column |-> TRUE, cells |-> <<Str(Chars(" "))>>],
     [has_column |-> FALSE, cells |-> <<>>]}

\* names_seed.csv: absent, without a name column, or with names
ManualFiles ==
    {[exists |-> FALSE, has_column |-> FALSE, names |-> <<>>],
     [exists |-> TRUE, has_column |-> FALSE, names |-> <<>>],
     [exists |-> TRUE, has_column |-> TRUE, names |-> <<Str(Chars("OFGEM")), Str(Chars(" "))>>]}

\* OPENAI_API_KEY and the text typed at the prompt
ApiKeys == {<<>>, Chars("sk")}

\* c = (row.get("country_label") or "").strip(); if c: countries.append(c)
RECURSIVE CountryLabels(_)
CountryLabels(cells) ==
    IF cells = <<>> THEN <<>>
    ELSE (IF Strip(OrEmpty(Head(cells)).v) = <<>> THEN <<>>
          ELSE <<Strip(OrEmpty(Head(cells)).v)>>)
             \o CountryLabels(Tail(cells))

\* stable unique
RECURSIVE StableUnique(_, _)
StableUnique(cs, seen_cs) ==
    IF cs = <<>> THEN <<>>
    ELSE IF Head(cs) \in seen_cs THEN StableUnique(Tail(cs), seen_cs)
         ELSE <<Head(cs)>> \o StableUnique(Tail(cs), seen_cs \cup {Head(cs)})

load_ggc_countries(file) == StableUnique(CountryLabels(file.cells), {})

\* keys.add(normalize_for_match(nm)) for every non-blank name
load_manual_seed_keys(file) ==
    {normalize_for_match(Strip(OrEmpty(file.names[i]).v)) :
        i \in {j \in 1..Len(file.names) : Strip(OrEmpty(file.names[j]).v) # <<>>}}

\* api_key = os.getenv("OPENAI_API_KEY"); if not api_key: api_key = getpass(...).strip()
ResolvedKey(env, typed) == IF env # <<>> THEN env ELSE Strip(typed)

\* the exception raised before the loop, or "None"
StartupError(cfile, use_manual, mfile, env, typed) ==
    IF ~cfile.has_column THEN "ValueError"
    ELSE IF use_manual /\ mfile.exists /\ ~mfile.has_column THEN "ValueError"
    ELSE IF ResolvedKey(env, typed) = <<>> THEN "RuntimeError"
    ELSE "None"

\* the texts the service answers the generation requests of a run with
RunGenResponses ==
    {[shape |-> "not_json"],
     [shape |-> "not_object"],
     Object(List(<<>>)),
     Object(List(<<Item(Str(Chars("Ofgem")), Str(<<>>), Str(Chars("HIGH")), Str(<<>>)),
                   Item(Str(Chars("Kenya Power")), Str(<<>>), Str(Chars("urgent")),
                        Str(<<>>))>>)),
     Object(List(<<Item(Str(Chars("Kenya Power")), Str(<<>>), Str(Chars("urgent")),
                        Str(<<>>)),
                   Item(Str(Chars(" OFGEM ")), Str(<<>>), Str(Chars("HIGH")), Str(<<>>)),
                   Item(Str(Chars("Ofgem")), Str(<<>>), Str(Chars("HIGH")), Str(<<>>))>>)),
     Object(List(<<Item(Str(Chars("  ")), Str(<<>>), Str(Chars("HIGH")), Str(Chars("x"))),
                   Item(Str(Chars("!!")), Str(<<>>), Str(Chars("HIGH")), Str(<<>>))>>)),
     Object(List(<<Item(Str(Chars("Ofgem")), Str(<<>>), Num(5), Str(<<>>))>>))}

\* the texts the service answers the verification requests of a run with
VerifyResponses ==
    {[shape |-> "not_json"],
     [shape |-> "not_object"],
     Object(List(<<Item(Str(Chars(" ")), Str(<<>>), Str(Chars("HIGH")), Str(<<>>)),
                   Item(Str(Chars("ofgem")), Str(<<>>), Str(Chars("LOW")), Str(<<>>))>>))}

\* return items[0] if items else None
FirstOrNone(xs) == IF xs # <<>> THEN xs[1] ELSE None

\* verified.append(v if v else it)
Verified(v, it) == IF v # None THEN v ELSE it

\* the loop without "if k in seen_keys: continue"
ShouldSkipUnseen(k, seen_k, use_manual, manual) ==
    k = <<>> \/ (use_manual /\ k \in manual)

\* the three continue tests of the accumulation loop
ShouldSkip(k, seen_k, use_manual, manual) ==
    k = <<>> \/ k \in seen_k \/ (use_manual /\ k \in manual)

\* SeedRow(country_label=country, category=cat_key, name=it.get("name", ""), ...)
SeedRow(country, cat_key, it) ==
    [country_label |-> country, category |-> cat_key, name |-> it.name,
     also_known_as |-> it.also_known_as, official_website |-> it.official_website,
     confidence |-> it.confidence, evidence |-> it.evidence, comment |-> it.comment,
     source |-> Chars("chatgpt")]

\* rows.insert(0, row)
AddRowFirst(rs, row) == <<row>> \o rs

\* rows.append(row)
AddRow(rs, row) == Append(rs, row)

\* for it in items: ... seen_keys.add(k); rows.append(SeedRow(...))
RECURSIVE Accumulate(_, _, _, _, _, _, _)
Accumulate(its, rs, seen_k, country, cat_key, use_manual, manual) ==
    IF its = <<>> THEN [rows |-> rs, seen_keys |-> seen_k]
    ELSE LET it == Head(its)
             k == normalize_for_match(it.name)
         IN  IF ShouldSkip(k, seen_k, use_manual, manual)
             THEN Accumulate(Tail(its), rs, seen_k, country, cat_key, use_manual, manual)
             ELSE Accumulate(Tail(its), AddRow(rs, SeedRow(country, cat_key, it)),
                             seen_k \cup {k}, country, cat_key, use_manual, manual)

NoResponse == [fn |-> "none", pos |-> 0, resp |-> [shape |-> "none"]]

RunInit ==
    /\ verify \in BOOLEAN
    /\ dedupe_against_manual \in BOOLEAN
    /\ countries = <<>>
    /\ manual_keys = {}
    /\ rows = <<>>
    /\ seen_keys = {}
    /\ ci = 1
    /\ ki = 1
    /\ items = <<>>
    /\ verified = <<>>
    /\ handled = NoResponse
    /\ run_error = "None"
    /\ written = None
    /\ rpc = "load"
    /\ NormIdle /\ DedupeIdle /\ FetchIdle /\ FilterIdle /\ ParseIdle

\* load_ggc_countries, load_manual_seed_keys, get_openai_client succeed
RunLoad ==
    /\ rpc = "load"
    /\ \E cfile \in CountryFiles, mfile \in ManualFiles, env \in ApiKeys, typed \in ApiKeys :
          /\ StartupError(cfile, dedupe_against_manual, mfile, env, typed) = "None"
          /\ countries' = load_ggc_countries(cfile)
          /\ manual_keys' = IF dedupe_against_manual /\ mfile.exists
                            THEN load_manual_seed_keys(mfile) ELSE {}
          /\ rpc' = IF load_ggc_countries(cfile) = <<>> THEN "write" ELSE "call"
    /\ UNCHANGED <<verify, dedupe_against_manual, rows, seen_keys, ci, ki, items, verified,
                   handled, run_error, written, runOthers>>

\* a missing column or no credential: the exception leaves main
RunLoadRaise ==
    /\ rpc = "load"
    /\ \E cfile \in CountryFiles, mfile \in ManualFiles, env \in ApiKeys, typed \in ApiKeys :
          /\ StartupError(cfile, dedupe_against_manual, mfile, env, typed) # "None"
          /\ run_error' = StartupError(cfile, dedupe_against_manual, mfile, env, typed)
    /\ rpc' = "aborted"
    /\ UNCHANGED <<verify, dedupe_against_manual, countries, manual_keys, rows, seen_keys,
                   ci, ki, items, verified, handled, written, runOthers>>

\* items = call_chatgpt(...): the response parses
CallChatGPT ==
    /\ rpc = "call"
    /\ \E resp \in RunGenResponses :
          /\ SafeParse(resp).err = "None"
          /\ items' = SafeParse(resp).items
          /\ handled' = [fn |-> "call_chatgpt", pos |-> 0, resp |-> resp]
          /\ rpc' = IF verify /\ SafeParse(resp).items # <<>> THEN "verify" ELSE "accumulate"
    /\ verified' = <<>>
    /\ UNCHANGED <<verify, dedupe_against_manual, countries, manual_keys, rows, seen_keys,
                   ci, ki, run_error, written, runOthers>>

\* call_chatgpt: _safe_parse_items raises, and nothing in main catches it
CallChatGPTParseRaise ==
    /\ rpc = "call"
    /\ \E resp \in RunGenResponses :
          /\ SafeParse(resp).err # "None"
          /\ run_error' = SafeParse(resp).err
          /\ handled' = [fn |-> "call_chatgpt", pos |-> 0, resp |-> resp]
    /\ rpc' = "aborted"
    /\ UNCHANGED <<verify, dedupe_against_manual, countries, manual_keys, rows, seen_keys,
                   ci, ki, items, verified, written, runOthers>>

\* client.responses.create raises (transport or API error)
ServiceRaise ==
    /\ rpc \in {"call", "verify"}
    /\ rpc = "verify" => Len(verified) < Len(items)
    /\ run_error' = "APIError"
    /\ rpc' = "aborted"
    /\ UNCHANGED <<verify, dedupe_against_manual, countries, manual_keys, rows, seen_keys,
                   ci, ki, items, verified, handled, written, runOthers>>

\* v = verify_item(..., candidate_name=it["name"]); verified.append(v if v else it)
VerifyItem ==
    /\ rpc = "verify"
    /\ Len(verified) < Len(items)
    /\ \E resp \in VerifyResponses :
          /\ SafeParse(resp).err = "None"
          /\ verified' = Append(verified,
                 Verified(FirstOrNone(SafeParse(resp).items), items[Len(verified) + 1]))
          /\ handled' = [fn |-> "verify_item", pos |-> Len(verified) + 1, resp |-> resp]
    /\ UNCHANGED <<verify, dedupe_against_manual, countries, manual_keys, rows, seen_keys,
                   ci, ki, items, run_error, written, rpc, runOthers>>

\* verify_item: _safe_parse_items raises
VerifyItemParseRaise ==
    /\ rpc = "verify"
    /\ Len(verified) < Len(items)
    /\ \E resp \in VerifyResponses :
          /\ SafeParse(resp).err # "None"
          /\ run_error' = SafeParse(resp).err
          /\ handled' = [fn |-> "verify_item", pos |-> Len(verified) + 1, resp |-> resp]
    /\ rpc' = "aborted"
    /\ UNCHANGED <<verify, dedupe_against_manual, countries, manual_keys, rows, seen_keys,
                   ci, ki, items, verified, written, runOthers>>

\* items = verified   (verified is not read again: the model empties it)
VerifyDone ==
    /\ rpc = "verify"
    /\ Len(verified) = Len(items)
    /\ items' = verified
    /\ verified' = <<>>
    /\ handled' = NoResponse
    /\ rpc' = "accumulate"
    /\ UNCHANGED <<verify, dedupe_against_manual, countries, manual_keys, rows, seen_keys,
                   ci, ki, run_error, written, runOthers>>

\* for it in items: the accumulation loop of the unit
AccumulateUnit ==
    /\ rpc = "accumulate"
    /\ LET acc == Accumulate(items, rows, seen_keys, countries[ci], CATEGORIES[ki],
                             dedupe_against_manual, manual_keys)
       IN  /\ rows' = acc.rows
           /\ seen_keys' = acc.seen_keys
    /\ rpc' = "sleep"
    /\ UNCHANGED <<verify, dedupe_against_manual, countries, manual_keys, ci, ki, items,
                   verified, handled, run_error, written, runOthers>>

\* loops that end after the first country's categories
LoopsEndAfterCountry(c, k, cs) == k = Len(CATEGORIES)

\* for country in countries: for cat_key, cat_desc in CATEGORIES: the unit (c, k) is
\* the last one
LoopsEnd(c, k, cs) == k = Len(CATEGORIES) /\ c = Len(cs)

\* time.sleep(args.sleep); the next category, or the next country, or the loops end
\* (items is assigned by the next call before it is read: the model empties it)
NextUnit ==
    /\ rpc = "sleep"
    /\ ki' = IF ki < Len(CATEGORIES) THEN ki + 1 ELSE 1
    /\ ci' = IF ki < Len(CATEGORIES) THEN ci ELSE ci + 1
    /\ rpc' = IF LoopsEnd(ci, ki, countries) THEN "write" ELSE "call"
    /\ handled' = NoResponse
    /\ items' = <<>>
    /\ UNCHANGED <<verify, dedupe_against_manual, countries, manual_keys, rows, seen_keys,
                   verified, run_error, written, runOthers>>

\* the fieldnames of the csv.DictWriter
fieldnames ==
    <<"country_label", "category", "name", "also_known_as", "official_website",
      "confidence", "evidence", "comment", "source">>

\* write_csv: the header, then one record per row with the nine fields of the row
write_csv(rs) ==
    [t |-> "file", header |-> fieldnames,
     records |-> [i \in 1..Len(rs) |->
                    [f \in {fieldnames[j] : j \in 1..Len(fieldnames)} |-> rs[i][f]]]]

\* write_csv(out_path, rows)
WriteCsv ==
    /\ rpc = "write"
    /\ written' = write_csv(rows)
    /\ rpc' = "done"
    /\ UNCHANGED <<verify, dedupe_against_manual, countries, manual_keys, rows, seen_keys,
                   ci, ki, items, verified, handled, run_error, runOthers>>

RunNext ==
    \/ RunLoad \/ RunLoadRaise
    \/ CallChatGPT \/ CallChatGPTParseRaise \/ ServiceRaise
    \/ VerifyItem \/ VerifyItemParseRaise \/ VerifyDone
    \/ AccumulateUnit \/ NextUnit
    \/ WriteCsv

SpecRun == RunInit /\ [][RunNext]_vars

RowKeys == {normalize_for_match(rows[i].name) : i \in 1..Len(rows)}

\* C3: no two accumulated rows have names with the same normalized key, and
\* seen_keys is exactly the set of normalized keys of the accumulated rows.
NoDuplicateKeys ==
    /\ \A i, j \in 1..Len(rows) :
          i # j => normalize_for_match(rows[i].name) # normalize_for_match(rows[j].name)
    /\ seen_keys = RowKeys

\* an item of another country's unit, put in place by verification, was skipped
\* because its key had been seen
NoDuplicateKeysWitness ==
    /\ rpc = "sleep"
    /\ verify
    /\ ci = 2
    /\ Len(rows) = 2
    /\ \E i \in 1..Len(items) :
          /\ items[i].name = Chars("ofgem")
          /\ \E j \in 1..Len(rows) :
                /\ rows[j].country_label = countries[1]
                /\ rows[j].name # items[i].name
                /\ normalize_for_match(rows[j].name) = normalize_for_match(items[i].name)

\* a response that is not JSON, or JSON of another shape than the schema's
Malformed(resp) ==
    \/ resp.shape \in {"not_json", "not_object"}
    \/ /\ resp.shape = "object"
       /\ \/ resp.items = Absent
          \/ resp.items.t # "list"
          \/ \E i \in 1..Len(resp.items.v) :
                \/ resp.items.v[i].t # "dict"
                \/ \E f \in 1..Len(ItemFields) :
                      Get(resp.items.v[i], ItemFields[f]).t # "str"

\* C5: a malformed response of the LLM service is not fatal: no error reaches
\* the run loop and the unit yields zero records.
MalformedResponseNonFatal ==
    (handled.fn = "call_chatgpt" /\ Malformed(handled.resp)) =>
        /\ rpc # "aborted"
        /\ items = <<>>

\* the same for the graph service: a body that is not JSON, or JSON without the
\* results/bindings structure, does not make the fetch raise
MalformedBodyNonFatal ==
    fpc = "raised" =>
        /\ raised \notin {"JSONDecodeError", "KeyError", "TypeError", "AttributeError"}

\* C6: position i of the verified list holds the generated candidate, unchanged,
\* when the verification response for item i yields no item with a non-empty
\* name (or does not parse), and the first parsed verification item otherwise;
\* verification never removes a candidate.
VerifyKeepsOrSubstitutes ==
    /\ handled.fn = "verify_item" =>
          /\ Len(verified) >= handled.pos
          /\ verified[handled.pos] =
                 IF NamedElements(handled.resp) = <<>> THEN items[handled.pos]
                 ELSE ParsedItem(NamedElements(handled.resp)[1])
    /\ rpc = "verify" => Len(verified) <= Len(items)

\* C7: every accumulated row, and every item parsed from a generation or a
\* verification response, has a name that is non-empty after trimming.
NamesNonEmpty ==
    /\ \A i \in 1..Len(rows) : Strip(rows[i].name) # <<>>
    /\ \A i \in 1..Len(items) : Strip(items[i].name) # <<>>
    /\ \A i \in 1..Len(verified) : Strip(verified[i].name) # <<>>

\* a response with a blank-name item was parsed, its named item kept, and rows
\* have been accumulated
NamesNonEmptyWitness ==
    /\ rpc = "sleep"
    /\ handled.fn = "call_chatgpt"
    /\ handled.resp.shape = "object"
    /\ handled.resp.items.t = "list"
    /\ \E i \in 1..Len(handled.resp.items.v) :
          Strip(handled.resp.items.v[i].name.v) = <<>>
    /\ Len(items) = 1
    /\ Len(rows) >= 1

\* the position of a row's unit in the iteration: country-major, category-minor
UnitIndex(r) ==
    LET c == CHOOSE i \in 1..Len(countries) : countries[i] = r.country_label
        k == CHOOSE i \in 1..Len(CATEGORIES) : CATEGORIES[i] = r.category
    IN  (c - 1) * Len(CATEGORIES) + k

\* a is a subsequence of b
RECURSIVE IsSubsequence(_, _)
IsSubsequence(a, b) ==
    IF a = <<>> THEN TRUE
    ELSE IF b = <<>> THEN FALSE
    ELSE IF Head(a) = Head(b) THEN IsSubsequence(Tail(a), Tail(b))
    ELSE IsSubsequence(a, Tail(b))

\* C10: the accumulated rows are in country-major, category-minor order (the
\* countries in the order of the de-duplicated country list, the categories in
\* the declared order); the rows of one unit are in the order of the unit's
\* items, a verification substitute standing at the position of the item it
\* replaces.
RowsInLoopOrder ==
    /\ \A i \in 1..Len(rows) :
          /\ \E c \in 1..Len(countries) : countries[c] = rows[i].country_label
          /\ \E k \in 1..Len(CATEGORIES) : CATEGORIES[k] = rows[i].category
    /\ \A i, j \in 1..Len(rows) : i < j => UnitIndex(rows[i]) <= UnitIndex(rows[j])
    /\ \A i, j \in 1..Len(countries) : i # j => countries[i] # countries[j]
    /\ rpc = "sleep" =>
          IsSubsequence(
              SelectSeq(rows, LAMBDA r : UnitIndex(r) = (ci - 1) * Len(CATEGORIES) + ki),
              [i \in 1..Len(items) |-> SeedRow(countries[ci], CATEGORIES[ki], items[i])])
    /\ (rpc = "verify" /\ handled.fn = "verify_item") =>
          /\ Len(verified) = handled.pos
          /\ \/ verified[handled.pos] = items[handled.pos]
             \/ /\ SafeParse(handled.resp).items # <<>>
                /\ verified[handled.pos] = SafeParse(handled.resp).items[1]

\* two rows of one unit in the items' order, after rows of an earlier country
RowsInLoopOrderWitness ==
    /\ rpc = "sleep"
    /\ ci = 2
    /\ Len(rows) = 2
    /\ rows[1].country_label = countries[1]
    /\ rows[2].country_label = countries[2]
    /\ rows[1].category = "Ministry"
    /\ rows[2].category = "Regulator"

\* ---- the output file ----

\* the units (country, category) the loops have been through
UnitsDone == (ci - 1) * Len(CATEGORIES) + (ki - 1)

\* C11: the output file is written all-or-nothing.  It holds something only once the
\* run is done without an error and both loops have been through every (country,
\* category) unit; what it holds is the header and one record per accumulated row, in
\* order; once written it is not written again; and a run that aborted (no credential,
\* a missing column or file, an error out of a service call or out of the parsing of
\* its response) has written nothing.
WriteAllOrNothing ==
    /\ [](/\ written # None =>
               /\ rpc = "done"
               /\ run_error = "None"
               /\ UnitsDone = Len(countries) * Len(CATEGORIES)
               /\ written.header = fieldnames
               /\ Len(written.records) = Len(rows)
               /\ \A i \in 1..Len(rows) :
                      \A j \in 1..Len(fieldnames) :
                         written.records[i][fieldnames[j]] = rows[i][fieldnames[j]]
          /\ (rpc = "aborted" \/ run_error # "None") => written = None
          /\ rpc = "done" => written # None)
    /\ [][written # None => written' = written]_vars

\* a complete run over two countries has written a file of two records
WriteAllOrNothingWitness ==
    /\ rpc = "done"
    /\ Len(countries) = 2
    /\ written # None
    /\ Len(written.records) = 2
    /\ written.records[1].country_label = countries[1]
    /\ written.records[2].country_label = countries[2]

====
